---- MODULE Spec2Model ----
(***************************************************************************)
(* TradeBot: the single-position trading engines of the repository.        *)
(*                                                                         *)
(*   Spec          LiveTradingBot, in its two source files                 *)
(*                 (variant "trade"     = src/bot/trade.py,                *)
(*                  variant "streamlit" = src/Streamlit/bot.py)            *)
(*   SpecStrategy  the backtrader strategies EnhancedStrategy              *)
(*                 (src/Streamlit/live_trading_bot_streamlit.py) and       *)
(*                 FixedExitStrategy (src/live_trading_bot_streamlit.py,   *)
(*                 src/backtest/backtrader_test.py)                        *)
(*                                                                         *)
(* Numbers.  Prices are integers and the percentages handed to the         *)
(* constructor are whole percents, so that  price <= entry * (1 - pct/100) *)
(* is the exact integer comparison  100 * price <= entry * (100 - pct).    *)
(* Timestamps are whole minutes; (t2 - t1).total_seconds() / 60 is t2 - t1.*)
(***************************************************************************)
EXTENDS Integers, Sequences, FiniteSets, TLC

\* ------------------------------------------------------------------ bounds
\* bar timestamps are k * interval minutes, k in 0..MaxTick
MaxTick == 1
\* max_hold_minutes is drawn from 0..MaxHold
MaxHold == 2
\* the ledger is followed up to MaxTrades entries
MaxTrades == 3
\* a strategy's max_hold_minutes is drawn from 1..MaxStrategyHold
MaxStrategyHold == 3
\* a backtest replays candles with timestamps in 0..MaxBarTime
MaxBarTime == 4

\* inputs: closes around 100, constructor percentages (the constructor takes
\* any number, zero and negative ones included), candle intervals
Prices == {99, 100, 101}
Percents == {-1, 1}
Intervals == {"1m", "15m"}
Variants == {"trade", "streamlit"}
Signals == {"BUY", "SELL", "HOLD"}
\* backtests: closes, strategy percentages (positive, as the UI and the
\* defaults give them), ATR * atr_multiplier
StrategyPrices == {99, 100, 101}
StrategyPercents == {1, 2}
AtrOffsets == {1, 3}
Strategies == {"Enhanced", "FixedExit"}

\* Python None in a numeric field (self.entry_time = None, self.trailing_stop = None)
None == -1

VARIABLES
    variant,              \* which source file's LiveTradingBot this is
    stop_loss_percent,    \* constructor argument, in percent
    take_profit_percent,  \* constructor argument, in percent
    max_hold_minutes,
    interval,
    position,             \* "NONE" (Python None) or "LONG"
    entry_price,
    entry_time,
    data,                 \* <<>> (empty frame) or <<bar>>: the frame's last row
    buy_signals,
    sell_signals,
    trades,
    is_running,
    csv,                  \* rows of the trades file; <<>> while it does not exist
    pc,                   \* run(): "idle" (not in the loop), "loop", "dead" (left by an exception);
                          \* statement by statement also "decide", "buy_58" .. "sell_77", "persist"
    peer_csv,             \* rows of the trades file of a second engine of the process (another symbol)
    feed,                 \* the provider: timestamp of the newest candle it has served
    \* ---- the backtrader strategies (prefix st_ where a name is taken above)
    strategy,             \* "Enhanced" or "FixedExit"
    st_stop_loss_percent, \* params.stop_loss_percent, in percent (FixedExit)
    st_take_profit_percent,
    trailing_percent,     \* params.trailing_percent, in percent (Enhanced)
    st_max_hold_minutes,
    st_position,          \* size of the broker's position: 0 or 1
    order,                \* the order the broker holds for the next candle: "none", "buy", "sell"
    st_entry_price,
    st_entry_time,
    stop_loss,            \* Enhanced: entry_price - atr * atr_multiplier
    take_profit,
    trailing_stop,        \* Enhanced, in hundredths of a price unit; None before the first buy
    st_trades,
    st_buy_signals,
    st_sell_signals,
    bar,                  \* <<>> before the first candle, else <<candle>>: datas[0] at index 0
    held_closes           \* history: the closes next() has seen in its else branch since the last buy

cfgVars == <<variant, stop_loss_percent, take_profit_percent, max_hold_minutes, interval>>
posVars == <<position, entry_price, entry_time>>
ledgerVars == <<buy_signals, sell_signals, trades>>
botVars == <<cfgVars, posVars, ledgerVars, data, is_running, csv, pc, feed, peer_csv>>

stCfgVars == <<strategy, st_stop_loss_percent, st_take_profit_percent, trailing_percent,
               st_max_hold_minutes>>
stExitVars == <<st_entry_price, st_entry_time, stop_loss, take_profit, trailing_stop>>
stLedgerVars == <<st_trades, st_buy_signals, st_sell_signals>>
stVars == <<stCfgVars, stExitVars, stLedgerVars, st_position, order, bar, held_closes>>

vars == <<botVars, stVars>>

\* ----------------------------------------------------------- LiveTradingBot

interval_minutes == IF interval = "1m" THEN 1 ELSE 15

Timestamps == {k * interval_minutes : k \in 0..MaxTick}

Bar(t, p) == [timestamp |-> t, close |-> p]

Bars == {Bar(t, p) : t \in Timestamps, p \in Prices}

\* current_price <= self.entry_price * (1 - self.stop_loss_percent)
StopLossHit(price) == 100 * price <= entry_price * (100 - stop_loss_percent)

\* current_price >= self.entry_price * (1 + self.take_profit_percent)
TakeProfitHit(price) == 100 * price >= entry_price * (100 + take_profit_percent)

\* the hold limit hold_time is compared with
HoldLimit ==
    IF variant = "trade" THEN max_hold_minutes * interval_minutes
    ELSE max_hold_minutes

hold_time(timestamp) == timestamp - entry_time

TimeExitHit(timestamp) == hold_time(timestamp) >= HoldLimit

calculate_signals_NoTakeProfit(current_price, timestamp) ==
    IF position = "NONE" THEN "BUY"
    ELSE IF StopLossHit(current_price) THEN "SELL"
    ELSE IF TimeExitHit(timestamp) THEN "SELL"
    ELSE "HOLD"

calculate_signals_EntryFilter(current_price, timestamp) ==
    IF position = "NONE" THEN (IF timestamp > entry_time THEN "BUY" ELSE "HOLD")
    ELSE IF StopLossHit(current_price) THEN "SELL"
    ELSE IF TakeProfitHit(current_price) THEN "SELL"
    ELSE IF TimeExitHit(timestamp) THEN "SELL"
    ELSE "HOLD"

calculate_signals(current_price, timestamp) ==
    IF position = "NONE" THEN "BUY"
    ELSE IF StopLossHit(current_price) THEN "SELL"
    ELSE IF TakeProfitHit(current_price) THEN "SELL"
    ELSE IF TimeExitHit(timestamp) THEN "SELL"
    ELSE "HOLD"

\* the reason execute_trade writes into the SELL row
exit_reason(current_price) ==
    IF variant = "trade"
    THEN IF TakeProfitHit(current_price) THEN "Take Profit"
         ELSE IF StopLossHit(current_price) THEN "Stop Loss"
         ELSE "Time Exit"
    ELSE IF TakeProfitHit(current_price) THEN "Take Profit" ELSE "Stop Loss"

BuyTrade(price, timestamp) ==
    [type |-> "BUY", price |-> price, timestamp |-> timestamp]

SellTrade_ProfitOfShort(price, timestamp, profit, reason) ==
    [type |-> "SELL", price |-> price, timestamp |-> timestamp,
     profit |-> 0 - profit, reason |-> reason]

SellTrade(price, timestamp, profit, reason) ==
    [type |-> "SELL", price |-> price, timestamp |-> timestamp,
     profit |-> profit, reason |-> reason]

BuyBranch_NoPositionTest(signal) == signal = "BUY"

\* if signal == 'BUY' and self.position is None
BuyBranch(signal) == signal = "BUY" /\ position = "NONE"

SellBranch_NoPositionTest(signal) == ~BuyBranch(signal) /\ signal = "SELL"

\* elif signal == 'SELL' and self.position == 'LONG'
SellBranch(signal) == ~BuyBranch(signal) /\ signal = "SELL" /\ position = "LONG"

TradesAfter_SellThenBuy(signal, price, timestamp) ==
    IF BuyBranch(signal) THEN Append(trades, BuyTrade(price, timestamp))
    ELSE IF SellBranch(signal)
    THEN Append(Append(trades, SellTrade(price, timestamp, price - entry_price,
                                         exit_reason(price))),
                BuyTrade(price, timestamp))
    ELSE trades

\* the rows execute_trade leaves in self.trades
TradesAfter(signal, price, timestamp) ==
    IF BuyBranch(signal) THEN Append(trades, BuyTrade(price, timestamp))
    ELSE IF SellBranch(signal)
    THEN Append(trades, SellTrade(price, timestamp, price - entry_price, exit_reason(price)))
    ELSE trades

execute_trade_Reprices(signal, current_price, timestamp) ==
    /\ trades' = TradesAfter(signal, current_price, timestamp)
    /\ IF BuyBranch(signal)
       THEN /\ position' = "LONG"
            /\ entry_price' = current_price
            /\ entry_time' = timestamp
            /\ buy_signals' = Append(buy_signals, <<timestamp, current_price>>)
            /\ UNCHANGED sell_signals
       ELSE IF SellBranch(signal)
       THEN /\ position' = "NONE"
            /\ sell_signals' = Append(sell_signals, <<timestamp, current_price>>)
            /\ UNCHANGED <<entry_price, entry_time, buy_signals>>
       ELSE /\ entry_price' = current_price
            /\ UNCHANGED <<position, entry_time, buy_signals, sell_signals>>

\* execute_trade, but for the write of the trades file
execute_trade(signal, current_price, timestamp) ==
    /\ trades' = TradesAfter(signal, current_price, timestamp)
    /\ IF BuyBranch(signal)
       THEN /\ position' = "LONG"
            /\ entry_price' = current_price
            /\ entry_time' = timestamp
            /\ buy_signals' = Append(buy_signals, <<timestamp, current_price>>)
            /\ UNCHANGED sell_signals
       ELSE IF SellBranch(signal)
       THEN /\ position' = "NONE"
            /\ sell_signals' = Append(sell_signals, <<timestamp, current_price>>)
            /\ UNCHANGED <<entry_price, entry_time, buy_signals>>
       ELSE UNCHANGED <<posVars, buy_signals, sell_signals>>

\* EnhancedStrategy.__init__ / FixedExitStrategy.__init__
StrategyStart ==
    /\ st_position = 0
    /\ order = "none"
    /\ st_entry_price = None
    /\ st_entry_time = None
    /\ stop_loss = None
    /\ take_profit = None
    /\ trailing_stop = None
    /\ st_trades = <<>>
    /\ st_buy_signals = <<>>
    /\ st_sell_signals = <<>>
    /\ bar = <<>>
    /\ held_closes = <<>>

\* no backtest is run beside the live bot
StrategyIdle ==
    /\ strategy = "Enhanced"
    /\ st_stop_loss_percent = 1
    /\ st_take_profit_percent = 1
    /\ trailing_percent = 1
    /\ st_max_hold_minutes = 1
    /\ StrategyStart

\* LiveTradingBot.__init__
BotStart ==
    /\ position = "NONE"
    /\ entry_price = 0
    /\ entry_time = None
    /\ data = <<>>
    /\ buy_signals = <<>>
    /\ sell_signals = <<>>
    /\ trades = <<>>
    /\ is_running = FALSE
    /\ csv = <<>>
    /\ pc = "idle"
    /\ feed = 0
    /\ peer_csv = <<>>

\* no live bot is run beside the backtest
BotIdle ==
    /\ variant = "trade"
    /\ stop_loss_percent = 1
    /\ take_profit_percent = 1
    /\ max_hold_minutes = 1
    /\ interval = "1m"
    /\ BotStart

Init ==
    /\ variant \in Variants
    /\ stop_loss_percent \in Percents
    /\ take_profit_percent \in Percents
    /\ max_hold_minutes \in 0..MaxHold
    /\ interval \in Intervals
    /\ BotStart
    /\ StrategyIdle

\* The newest candle of the provider never moves back in time: it is still the
\* candle served last (re-served while it forms) or a later one.
FetchResults ==
    [kind : {"bar"}, bar : {b \in Bars : b.timestamp >= feed}] \cup [kind : {"empty", "raise"}]

\* the newest candle served so far
FeedAfterFetch(r) ==
    IF r.kind = "bar" /\ r.bar.timestamp > feed THEN r.bar.timestamp ELSE feed

DataAfterFetch(r) ==
    IF r.kind = "bar" THEN <<r.bar>>
    ELSE IF r.kind = "empty" THEN <<>>
    ELSE data

\* the trades file after execute_trade (Streamlit/bot.py rewrites it in the
\* SELL branch; ioOk = FALSE: to_csv raises)
CsvAfterExecute(signal, price, timestamp, ioOk) ==
    IF variant = "streamlit" /\ SellBranch(signal) /\ ioOk
    THEN TradesAfter(signal, price, timestamp)
    ELSE csv

\* execute_trade raises (only Streamlit/bot.py writes a file in it)
ExecuteRaises(signal, ioOk) == variant = "streamlit" /\ SellBranch(signal) /\ ~ioOk

\* Streamlit/bot.py: every engine writes TRADES_FILE, so this engine's write is
\* what the second engine finds in its trades file; bot/trade.py names the file
\* after the symbol
PeerCsvAfter(rows) == IF variant = "streamlit" THEN rows ELSE peer_csv

\* run(): self.is_running = True, then the loop is entered
Run ==
    /\ pc \in {"idle", "dead"}
    /\ is_running' = TRUE
    /\ pc' = "loop"
    \* bot/trade.py names a new trades file at every run()
    /\ csv' = IF variant = "trade" THEN <<>> ELSE csv
    /\ UNCHANGED <<cfgVars, posVars, ledgerVars, data, feed, peer_csv, stVars>>

\* one pass of the while loop of run(), from get_live_data to the sleep, when
\* get_live_data meets r. ioOk = FALSE: plotting or to_csv raises
IterationOn(r, ioOk) ==
    /\ pc = "loop"
    /\ is_running
    /\ Len(trades) < MaxTrades
    /\ data' = DataAfterFetch(r)
    /\ feed' = FeedAfterFetch(r)
    /\ IF data' # <<>>
       THEN LET current_price == data'[1].close
                current_time == data'[1].timestamp
                signal == calculate_signals(current_price, current_time)
            IN  /\ execute_trade(signal, current_price, current_time)
                /\ IF variant = "trade"
                   \* trades_df.to_csv(csv_filename); a failure is caught
                   THEN /\ csv' = IF ioOk THEN trades' ELSE csv
                        /\ pc' = pc
                   \* no try/except: a failed write ends run()
                   ELSE /\ csv' = CsvAfterExecute(signal, current_price, current_time, ioOk)
                        /\ pc' = IF ExecuteRaises(signal, ioOk) THEN "dead" ELSE pc
       ELSE UNCHANGED <<posVars, ledgerVars, csv, pc>>
    /\ peer_csv' = PeerCsvAfter(csv')
    /\ UNCHANGED <<cfgVars, is_running, stVars>>

RunIteration == \E r \in FetchResults, ioOk \in BOOLEAN : IterationOn(r, ioOk)

\* while self.is_running: the test fails and run() returns
LoopExit ==
    /\ pc = "loop"
    /\ ~is_running
    /\ pc' = "idle"
    /\ UNCHANGED <<cfgVars, posVars, ledgerVars, data, is_running, csv, feed, peer_csv, stVars>>

\* datetime.now(), read in whole minutes
NowValues == {k * interval_minutes : k \in 0..(MaxTick + 1)}

StopCloses_NoPositionTest == variant = "trade" /\ data # <<>>

\* stop() of bot/trade.py closes the position
StopCloses == variant = "trade" /\ position = "LONG" /\ data # <<>>

PositionAfterStop_Kept == position

\* self.position = None in the closing branch of stop()
PositionAfterStop == IF StopCloses THEN "NONE" ELSE position

\* the body of stop(); n1, n2 are the two datetime.now() readings of the
\* closing branch
stop ==
    /\ Len(trades) < MaxTrades \/ ~StopCloses
    /\ is_running' = FALSE
    /\ position' = PositionAfterStop
    /\ IF StopCloses
       THEN \E n1, n2 \in NowValues :
              \* the clock is not behind any candle served
              /\ feed <= n1
              /\ n1 <= n2
              /\ LET current_price == data[1].close
                     profit == current_price - entry_price
                 IN  /\ sell_signals' = Append(sell_signals, <<n1, current_price>>)
                     /\ trades' = Append(trades,
                            SellTrade(current_price, n2, profit, "Manual Stop"))
       ELSE UNCHANGED <<sell_signals, trades>>
    /\ UNCHANGED <<cfgVars, entry_price, entry_time, buy_signals, data, csv, feed, peer_csv, stVars>>

\* stop() called while run() is where it is (from another thread, or outside the loop)
Stop ==
    /\ stop
    /\ UNCHANGED pc

\* a caller other than run() invokes execute_trade: any signal, on the latest
\* candle of self.data
ExecuteTradeOn(signal, ioOk) ==
    /\ Len(trades) < MaxTrades
    /\ data # <<>>
    /\ execute_trade(signal, data[1].close, data[1].timestamp)
    /\ csv' = CsvAfterExecute(signal, data[1].close, data[1].timestamp, ioOk)
    /\ peer_csv' = PeerCsvAfter(csv')
    /\ UNCHANGED <<cfgVars, data, is_running, pc, feed, stVars>>

ExecuteTradeCall == \E signal \in Signals, ioOk \in BOOLEAN : ExecuteTradeOn(signal, ioOk)

Next ==
    \/ Run
    \/ RunIteration
    \/ LoopExit
    \/ Stop
    \/ ExecuteTradeCall

Spec == Init /\ [][Next]_vars

\* ------------------------------- run() of bot/trade.py, statement by statement
\* The loop of run() with execute_trade taken one assignment at a time, so that
\* stop() can arrive between two of them: called from another thread (Stop), or
\* by __main__ after a KeyboardInterrupt has unwound run() (Interrupt).
\* current_price and current_time are the last row of self.data throughout.

stepFrame == <<cfgVars, is_running, feed, peer_csv, stVars>>

\* while self.is_running; self.get_live_data(); with no frame, the sleep
StepFetch(r) ==
    /\ pc = "loop"
    /\ is_running
    /\ data' = DataAfterFetch(r)
    /\ feed' = FeedAfterFetch(r)
    /\ pc' = IF data' # <<>> THEN "decide" ELSE "loop"
    /\ UNCHANGED <<stepFrame, posVars, ledgerVars, csv>>

\* calculate_signals, and the branch execute_trade enters
StepDecide ==
    /\ pc = "decide"
    /\ Len(trades) < MaxTrades
    /\ LET signal == calculate_signals(data[1].close, data[1].timestamp)
       IN  pc' = IF BuyBranch(signal) THEN "buy_58"
                 ELSE IF SellBranch(signal) THEN "sell_74"
                 ELSE "persist"
    /\ UNCHANGED <<stepFrame, posVars, ledgerVars, data, csv>>

\* self.position = 'LONG'
Buy58 ==
    /\ pc = "buy_58"
    /\ position' = "LONG"
    /\ pc' = "buy_59"
    /\ UNCHANGED <<stepFrame, entry_price, entry_time, ledgerVars, data, csv>>

\* self.entry_price = current_price
Buy59 ==
    /\ pc = "buy_59"
    /\ entry_price' = data[1].close
    /\ pc' = "buy_60"
    /\ UNCHANGED <<stepFrame, position, entry_time, ledgerVars, data, csv>>

\* self.entry_time = timestamp
Buy60 ==
    /\ pc = "buy_60"
    /\ entry_time' = data[1].timestamp
    /\ pc' = "buy_61"
    /\ UNCHANGED <<stepFrame, position, entry_price, ledgerVars, data, csv>>

\* self.buy_signals.append((timestamp, current_price))
Buy61 ==
    /\ pc = "buy_61"
    /\ buy_signals' = Append(buy_signals, <<data[1].timestamp, data[1].close>>)
    /\ pc' = "buy_63"
    /\ UNCHANGED <<stepFrame, posVars, sell_signals, trades, data, csv>>

\* self.trades.append({'type': 'BUY', ...})
Buy63 ==
    /\ pc = "buy_63"
    /\ trades' = Append(trades, BuyTrade(data[1].close, data[1].timestamp))
    /\ pc' = "persist"
    /\ UNCHANGED <<stepFrame, posVars, buy_signals, sell_signals, data, csv>>

\* profit and exit_reason are computed (from entry_price, which nothing changes
\* before the row is appended), then self.position = None
Sell74 ==
    /\ pc = "sell_74"
    /\ position' = "NONE"
    /\ pc' = "sell_75"
    /\ UNCHANGED <<stepFrame, entry_price, entry_time, ledgerVars, data, csv>>

\* self.sell_signals.append((timestamp, current_price))
Sell75 ==
    /\ pc = "sell_75"
    /\ sell_signals' = Append(sell_signals, <<data[1].timestamp, data[1].close>>)
    /\ pc' = "sell_77"
    /\ UNCHANGED <<stepFrame, posVars, buy_signals, trades, data, csv>>

\* self.trades.append({'type': 'SELL', ...})
Sell77 ==
    /\ pc = "sell_77"
    /\ LET price == data[1].close
       IN  trades' = Append(trades, SellTrade(price, data[1].timestamp,
                                              price - entry_price, exit_reason(price)))
    /\ pc' = "persist"
    /\ UNCHANGED <<stepFrame, posVars, buy_signals, sell_signals, data, csv>>

\* plot_candlestick, trades_df.to_csv(csv_filename) (a failure is caught), the sleep
Persist ==
    /\ pc = "persist"
    /\ \E ioOk \in BOOLEAN : csv' = IF ioOk THEN trades ELSE csv
    /\ pc' = "loop"
    /\ UNCHANGED <<stepFrame, posVars, ledgerVars, data>>

\* KeyboardInterrupt at the statement run() is at (except Exception does not
\* catch it): run() is left and __main__ calls stop()
Interrupt ==
    /\ pc \notin {"idle", "dead"}
    /\ stop
    /\ pc' = "idle"

\* a new bot/trade.py engine on 1m candles, percentages and hold limit
\* positive, on which __main__ has called run(): is_running is set and the
\* while test comes next
InitSteps ==
    /\ variant = "trade"
    /\ interval = "1m"
    /\ stop_loss_percent \in {p \in Percents : p > 0}
    /\ take_profit_percent \in {p \in Percents : p > 0}
    /\ max_hold_minutes \in 1..MaxHold
    /\ position = "NONE"
    /\ entry_price = 0
    /\ entry_time = None
    /\ data = <<>>
    /\ buy_signals = <<>>
    /\ sell_signals = <<>>
    /\ trades = <<>>
    /\ is_running = TRUE
    /\ csv = <<>>
    /\ pc = "loop"
    /\ feed = 0
    /\ peer_csv = <<>>
    /\ StrategyIdle

NextSteps ==
    \/ \E r \in FetchResults : StepFetch(r)
    \/ StepDecide
    \/ Buy58
    \/ Buy59
    \/ Buy60
    \/ Buy61
    \/ Buy63
    \/ Sell74
    \/ Sell75
    \/ Sell77
    \/ Persist
    \/ LoopExit
    \/ Stop
    \/ Interrupt

SpecSteps == InitSteps /\ [][NextSteps]_vars

\* ------------------------------------- a provider that may serve older candles
\* The provider may return as its latest candle one older than a candle it has
\* served before (the bar source is allowed stale and out-of-order bars).

AnyFetchResults == [kind : {"bar"}, bar : Bars] \cup [kind : {"empty", "raise"}]

RunIterationAnyOrder == \E r \in AnyFetchResults, ioOk \in BOOLEAN : IterationOn(r, ioOk)

NextAnyOrder ==
    \/ Run
    \/ RunIterationAnyOrder
    \/ LoopExit
    \/ Stop

SpecAnyOrder == Init /\ [][NextAnyOrder]_vars

\* ------------------------------------------- two engines in one process
\* A second LiveTradingBot, for another symbol, runs beside this one; of it only
\* the rewrite of its trades file is followed.

PeerLedgers == {<<BuyTrade(100, 0), SellTrade(101, 1, 1, "Take Profit")>>}

\* the second engine rewrites its trades file with its own ledger
PeerWrites ==
    /\ \E rows \in PeerLedgers :
        /\ peer_csv' = rows
        \* Streamlit/bot.py: the file is TRADES_FILE, this engine's file too
        /\ csv' = IF variant = "streamlit" THEN rows ELSE csv
    /\ UNCHANGED <<cfgVars, posVars, ledgerVars, data, is_running, pc, feed, stVars>>

NextPeers ==
    \/ Next
    \/ PeerWrites

SpecPeers == Init /\ [][NextPeers]_vars

\* ------------------------------------------------- the backtrader strategies

Max(a, b) == IF a >= b THEN a ELSE b

Candle(t, p) == [timestamp |-> t, close |-> p]

\* cerebro replays the frame in order: each candle is later than the one before
NextCandles ==
    IF bar = <<>> THEN {Candle(0, p) : p \in StrategyPrices}
    ELSE {Candle(t, p) : t \in (bar[1].timestamp + 1)..MaxBarTime, p \in StrategyPrices}

\* The broker fills the market order of the previous candle before next() runs;
\* a buy it cannot fund (accepted = FALSE) is dropped.
PositionAtNext(accepted) ==
    IF order = "buy" THEN (IF accepted THEN st_position + 1 ELSE st_position)
    ELSE IF order = "sell" THEN st_position - 1
    ELSE st_position

TrailingInit_NoPercent(price) == price * 100

\* self.trailing_stop = self.entry_price * (1 - self.params.trailing_percent)
TrailingInit(price) == price * (100 - trailing_percent)

TrailingUpdate_NoMax(price) ==
    IF price > st_entry_price /\ 100 * price > trailing_stop
    THEN price * (100 - trailing_percent)
    ELSE trailing_stop

\* Trailing Stop-Loss Adjustment
TrailingUpdate(price) ==
    IF price > st_entry_price /\ 100 * price > trailing_stop
    THEN Max(trailing_stop, price * (100 - trailing_percent))
    ELSE trailing_stop

st_hold_time(timestamp) == timestamp - st_entry_time

\* EnhancedStrategy.next: exit_reason after the exit conditions ("none": None);
\* trailing is the trailing stop as the adjustment above left it
EnhancedExitReason(price, timestamp, trailing) ==
    LET byPrice ==
            IF price <= stop_loss THEN "Stop Loss"
            ELSE IF price >= take_profit THEN "Take Profit"
            ELSE IF 100 * price <= trailing THEN "Trailing Stop"
            ELSE "none"
    IN  IF st_hold_time(timestamp) >= st_max_hold_minutes THEN "Time Exit" ELSE byPrice

\* FixedExitStrategy.next: exit_reason after the if / elif chain
FixedExitReason(price, timestamp) ==
    IF 100 * price <= st_entry_price * (100 - st_stop_loss_percent) THEN "Stop Loss"
    ELSE IF 100 * price >= st_entry_price * (100 + st_take_profit_percent) THEN "Take Profit"
    ELSE IF st_hold_time(timestamp) >= st_max_hold_minutes THEN "Time Exit"
    ELSE "none"

RoundTrip(price, timestamp, reason) ==
    [buy_time |-> st_entry_time, buy_price |-> st_entry_price,
     sell_time |-> timestamp, sell_price |-> price, reason |-> reason]

\* params of the strategy class that is run; the other class's are absent
InitStrategy ==
    /\ strategy \in Strategies
    /\ IF strategy = "FixedExit"
       THEN /\ st_stop_loss_percent \in StrategyPercents
            /\ st_take_profit_percent \in StrategyPercents
            /\ trailing_percent = None
       ELSE /\ st_stop_loss_percent = None
            /\ st_take_profit_percent = None
            /\ trailing_percent \in StrategyPercents
    /\ st_max_hold_minutes \in 1..MaxStrategyHold
    /\ StrategyStart
    /\ BotIdle

\* next() on a candle that finds no position: the "if not self.position" branch.
\* cross: ema_short > ema_long and rsi < 30; atr: atr[0] * atr_multiplier
NextFlat ==
    \E c \in NextCandles, accepted \in BOOLEAN, cross \in BOOLEAN, atr \in AtrOffsets :
        /\ PositionAtNext(accepted) = 0
        /\ st_position' = 0
        /\ bar' = <<c>>
        /\ IF strategy = "FixedExit" \/ cross
           THEN /\ order' = "buy"
                /\ st_entry_price' = c.close
                /\ st_entry_time' = c.timestamp
                /\ st_buy_signals' = Append(st_buy_signals, <<c.timestamp, c.close>>)
                /\ held_closes' = <<>>
                /\ IF strategy = "Enhanced"
                   THEN /\ stop_loss' = c.close - atr
                        /\ take_profit' = c.close + atr
                        /\ trailing_stop' = TrailingInit(c.close)
                   ELSE UNCHANGED <<stop_loss, take_profit, trailing_stop>>
           ELSE /\ order' = "none"
                /\ UNCHANGED <<stExitVars, st_buy_signals, held_closes>>
        /\ UNCHANGED <<stCfgVars, st_trades, st_sell_signals, botVars>>

\* next() on a candle that finds the position open: the else branch
NextInPosition ==
    \E c \in NextCandles, accepted \in BOOLEAN :
        /\ PositionAtNext(accepted) # 0
        /\ st_position' = PositionAtNext(accepted)
        /\ bar' = <<c>>
        /\ held_closes' = Append(held_closes, c.close)
        /\ trailing_stop' =
               IF strategy = "Enhanced" THEN TrailingUpdate(c.close) ELSE trailing_stop
        /\ LET reason ==
                   IF strategy = "Enhanced"
                   THEN EnhancedExitReason(c.close, c.timestamp, trailing_stop')
                   ELSE FixedExitReason(c.close, c.timestamp)
           IN  IF reason # "none"
               THEN /\ st_sell_signals' = Append(st_sell_signals, <<c.timestamp, c.close>>)
                    /\ order' = "sell"
                    /\ st_trades' = Append(st_trades, RoundTrip(c.close, c.timestamp, reason))
               ELSE /\ order' = "none"
                    /\ UNCHANGED <<st_sell_signals, st_trades>>
        /\ UNCHANGED <<stCfgVars, st_entry_price, st_entry_time, stop_loss, take_profit,
                       st_buy_signals, botVars>>

NextStrategy ==
    \/ NextFlat
    \/ NextInPosition

SpecStrategy == InitStrategy /\ [][NextStrategy]_vars

\* ====================================================================== claims

Last(seq) == seq[Len(seq)]

ExitReasons == {"Stop Loss", "Take Profit", "Time Exit", "Manual Stop"}

\* row i of the ledger is a SELL that execute_trade wrote, closing the BUY of row i - 1
IsExitRow(i) ==
    /\ i \in 2..Len(trades)
    /\ trades[i].type = "SELL"
    /\ trades[i].reason # "Manual Stop"
    /\ trades[i - 1].type = "BUY"

\* close c breaches the stop-loss / take-profit threshold of entry price e
BreachesStopLoss(c, e) == 100 * c <= e * (100 - stop_loss_percent)
ReachesTakeProfit(c, e) == 100 * c >= e * (100 + take_profit_percent)

\* C1: the ledger alternates BUY, SELL, BUY, SELL, ... and starts with BUY, whatever
\* iterations, execute_trade calls and stop() calls came before.
C1_LedgerAlternates ==
    \A i \in 1..Len(trades) : trades[i].type = (IF i % 2 = 1 THEN "BUY" ELSE "SELL")

C1_Witness ==
    /\ Len(trades) = 3
    /\ trades[2].reason = "Manual Stop"
    /\ trades[3].type = "BUY"

\* C2: position is LONG exactly when the ledger ends with a BUY; it is None exactly
\* when the ledger is empty or ends with a SELL.
C2_LongIffLedgerEndsWithBuy ==
    /\ position \in {"NONE", "LONG"}
    /\ (position = "LONG") <=> (Len(trades) > 0 /\ Last(trades).type = "BUY")

C2_Witness ==
    /\ Len(trades) = 2
    /\ Last(trades).reason = "Manual Stop"
    /\ position = "NONE"
    /\ ~is_running

\* the exit condition of highest priority that holds on the candle next() has just
\* seen: stop-loss, then take-profit, then trailing stop, then time exit
PriorityReason ==
    LET c == bar[1].close
        hold == bar[1].timestamp - st_entry_time
        stopLossHit ==
            IF strategy = "Enhanced" THEN c <= stop_loss
            ELSE 100 * c <= st_entry_price * (100 - st_stop_loss_percent)
        takeProfitHit ==
            IF strategy = "Enhanced" THEN c >= take_profit
            ELSE 100 * c >= st_entry_price * (100 + st_take_profit_percent)
        trailingHit == strategy = "Enhanced" /\ 100 * c <= trailing_stop
    IN  IF stopLossHit THEN "Stop Loss"
        ELSE IF takeProfitHit THEN "Take Profit"
        ELSE IF trailingHit THEN "Trailing Stop"
        ELSE IF hold >= st_max_hold_minutes THEN "Time Exit"
        ELSE "none"

\* C3: a strategy that exits on a candle records the reason of the highest-priority
\* exit condition that holds on that candle (stop-loss, take-profit, trailing stop,
\* time exit, in this order).
C3_FirstMatchGivesReason ==
    order = "sell" => Last(st_trades).reason = PriorityReason

\* C4: with a positive stop-loss percentage and a positive entry price, a candle
\* that closes at or under entry * (1 - s) while LONG is answered with SELL, and the
\* SELL row it leaves has reason Stop Loss.
C4_StopLossBarSellsAsStopLoss ==
    stop_loss_percent > 0 =>
        /\ \A i \in 1..Len(trades) :
              (IsExitRow(i) /\ trades[i - 1].price > 0
                  /\ BreachesStopLoss(trades[i].price, trades[i - 1].price))
              => trades[i].reason = "Stop Loss"
        /\ (position = "LONG" /\ entry_price > 0) =>
              \A b \in Bars :
                  BreachesStopLoss(b.close, entry_price)
                  => calculate_signals(b.close, b.timestamp) = "SELL"

\* C5: a candle that closes at or over entry * (1 + tp) while LONG, without breaching
\* the stop-loss threshold, is answered with SELL, and the SELL row has reason
\* Take Profit.
C5_TakeProfitBarSellsAsTakeProfit ==
    /\ \A i \in 1..Len(trades) :
          (IsExitRow(i) /\ ReachesTakeProfit(trades[i].price, trades[i - 1].price)
              /\ ~BreachesStopLoss(trades[i].price, trades[i - 1].price))
          => trades[i].reason = "Take Profit"
    /\ position = "LONG" =>
          \A b \in Bars :
              (ReachesTakeProfit(b.close, entry_price) /\ ~BreachesStopLoss(b.close, entry_price))
              => /\ calculate_signals(b.close, b.timestamp) = "SELL"
                 /\ Last(TradesAfter("SELL", b.close, b.timestamp)).reason = "Take Profit"

C5_Witness ==
    /\ IsExitRow(Len(trades))
    /\ ReachesTakeProfit(Last(trades).price, trades[Len(trades) - 1].price)
    /\ ~BreachesStopLoss(Last(trades).price, trades[Len(trades) - 1].price)
    /\ data # <<>>
    /\ data[1].close = Last(trades).price
    /\ data[1].timestamp = Last(trades).timestamp

\* C6: while LONG, on a candle that matches neither price threshold,
\* calculate_signals returns SELL exactly when the minutes elapsed since entry_time
\* are at least max_hold_minutes, for the '1m' and the '15m' interval alike.
C6_TimeExitAtMaxHoldMinutes ==
    position = "LONG" =>
        \A b \in Bars :
            (~BreachesStopLoss(b.close, entry_price) /\ ~ReachesTakeProfit(b.close, entry_price))
            => /\ calculate_signals(b.close, b.timestamp) \in {"SELL", "HOLD"}
               /\ (calculate_signals(b.close, b.timestamp) = "SELL")
                      <=> (b.timestamp - entry_time >= max_hold_minutes)

\* C7: every SELL row carries one exit reason, and a SELL the decision step asked
\* for because the hold limit was reached, with neither price threshold breached,
\* has reason Time Exit.
C7_TimeExitRecordedAsTimeExit ==
    /\ \A i \in 1..Len(trades) :
          trades[i].type = "SELL" => trades[i].reason \in ExitReasons
    /\ \A i \in 1..Len(trades) :
          (IsExitRow(i)
              /\ ~BreachesStopLoss(trades[i].price, trades[i - 1].price)
              /\ ~ReachesTakeProfit(trades[i].price, trades[i - 1].price)
              /\ trades[i].timestamp - trades[i - 1].timestamp >= HoldLimit)
          => trades[i].reason = "Time Exit"

\* C8: a SELL on a candle whose close breaches the stop-loss threshold and reaches
\* the take-profit threshold at once has reason Stop Loss.
C8_StopLossWinsTie ==
    \A i \in 1..Len(trades) :
        (IsExitRow(i)
            /\ BreachesStopLoss(trades[i].price, trades[i - 1].price)
            /\ ReachesTakeProfit(trades[i].price, trades[i - 1].price))
        => trades[i].reason = "Stop Loss"

\* C9: in EnhancedStrategy the trailing stop never decreases from one candle to the
\* next while one position is held (from the candle that opened it on).
C9_TrailingStopNeverDecreases ==
    [][(strategy = "Enhanced" /\ st_position' = 1 /\ (st_position = 1 \/ order = "buy"))
        => trailing_stop' >= trailing_stop]_vars

C9_Witness ==
    /\ strategy = "Enhanced"
    /\ st_position = 1
    /\ Len(held_closes) >= 2
    /\ Last(held_closes) > st_entry_price
    /\ Last(held_closes) < held_closes[Len(held_closes) - 1]
    /\ 100 * Last(held_closes) > trailing_stop
    /\ trailing_stop > Last(held_closes) * (100 - trailing_percent)

SetMax(S) == CHOOSE x \in S : \A y \in S : y <= x

\* C10: in EnhancedStrategy the trailing stop is entry_price * (1 - trailing_percent)
\* when the position opens, and after every later candle of the position it is the
\* maximum of that value and close * (1 - trailing_percent) over the candles so far
\* (the current one included) that closed above entry_price; the exit conditions of
\* a candle see the value as updated on that candle.
C10_TrailingStopIsRunningMax ==
    (strategy = "Enhanced" /\ trailing_stop # None) =>
        /\ trailing_stop =
              SetMax({st_entry_price * (100 - trailing_percent)} \cup
                     {held_closes[i] * (100 - trailing_percent) :
                          i \in {j \in DOMAIN held_closes : held_closes[j] > st_entry_price}})
        /\ (order = "sell" /\ Last(st_trades).reason = "Trailing Stop")
              => 100 * bar[1].close <= trailing_stop

C10_Witness ==
    /\ strategy = "Enhanced"
    /\ st_position = 1
    /\ Len(held_closes) >= 2
    /\ trailing_stop > st_entry_price * (100 - trailing_percent)
    /\ order = "sell"
    /\ Last(st_trades).reason = "Trailing Stop"

\* C11: whenever no position is held the decision step returns BUY for every
\* bar, whatever its close and timestamp, and an iteration of the loop that
\* gets a bar while flat (the first one after a SELL among them) opens a
\* position at that bar.
C11_FlatAlwaysBuys ==
    /\ [](position = "NONE" =>
            \A b \in Bars : calculate_signals(b.close, b.timestamp) = "BUY")
    /\ [][(RunIteration /\ position = "NONE" /\ data' # <<>>) =>
            /\ position' = "LONG"
            /\ trades' = Append(trades, BuyTrade(data'[1].close, data'[1].timestamp))]_vars

\* a SELL decided on a bar has been followed by the BUY of the bar processed next
C11_Witness ==
    /\ Len(trades) = 3
    /\ trades[2].type = "SELL"
    /\ trades[2].reason # "Manual Stop"
    /\ trades[3].type = "BUY"
    /\ trades[3].timestamp >= trades[2].timestamp
    /\ position = "LONG"
    /\ pc = "loop"

\* the configurations the specification allows: percentages and hold limit positive
PositiveConfig ==
    stop_loss_percent > 0 /\ take_profit_percent > 0 /\ max_hold_minutes > 0

\* C12 (checked on engines with a positive configuration): after stop() has returned the engine is not running and holds no
\* position: a position held when stop() is called has been closed by a
\* SELL row with the reason Manual Stop, whatever the last fetch gave.
C12_StopClosesPosition ==
    [][(PositiveConfig /\ stop) =>
        /\ ~is_running'
        /\ position' = "NONE"
        /\ position = "LONG" =>
             /\ Len(trades') = Len(trades) + 1
             /\ Last(trades').type = "SELL"
             /\ Last(trades').reason = "Manual Stop"]_vars

\* C13: stop() called while no position is held changes nothing but
\* is_running: the ledger, both signal lists, entry_price and entry_time (and
\* the position, the frame and the trades file) are as before.
C13_StopWhileFlatOnlyClearsRunning ==
    [][(stop /\ position = "NONE") =>
        /\ ~is_running'
        /\ UNCHANGED <<trades, buy_signals, sell_signals, entry_price, entry_time,
                       position, data, csv>>]_vars

\* stop() has been called on a running bot/trade.py engine that was flat after
\* a round trip, with a candle in self.data
C13_Witness ==
    /\ variant = "trade"
    /\ pc = "loop"
    /\ ~is_running
    /\ position = "NONE"
    /\ data # <<>>
    /\ Len(trades) = 2
    /\ trades[2].reason # "Manual Stop"


\* the fetches that fail: an empty frame, an exception
FailedFetches == [kind : {"empty", "raise"}]

\* C14 (checked on engines with a positive configuration): the loop does not decide and apply on a bar twice: an iteration whose
\* fetch returns a bar with a timestamp not later than the bar processed last
\* changes neither the position, the ledger nor the signal lists.
C14_OldBarIsSkipped ==
    [][(/\ PositiveConfig
        /\ data # <<>>
        /\ \E r \in FetchResults, ioOk \in BOOLEAN :
             /\ r.kind = "bar"
             /\ r.bar.timestamp <= data[1].timestamp
             /\ IterationOn(r, ioOk))
       => UNCHANGED <<position, trades, buy_signals, sell_signals>>]_vars

\* C15 (checked on engines with a positive configuration): an iteration whose fetch fails (it raises, or returns an empty frame)
\* leaves the loop running and advances no state: position, entry_price,
\* entry_time, ledger and both signal lists are as before, also with a bar of
\* an earlier fetch still in self.data.
C15_FailedFetchAdvancesNothing ==
    [][(PositiveConfig /\ \E r \in FailedFetches, ioOk \in BOOLEAN : IterationOn(r, ioOk))
       => /\ is_running'
          /\ pc' = "loop"
          /\ UNCHANGED <<posVars, ledgerVars>>]_vars

\* C16 (checked on engines with a positive configuration): no failure inside an iteration ends the loop: after every iteration,
\* failed or not, run() is still in its loop.
C16_IterationNeverEndsLoop ==
    [][(PositiveConfig /\ RunIteration) => (is_running' /\ pc' = "loop")]_vars

\* C18: an engine whose stop-loss percentage, take-profit percentage or
\* maximum hold is not positive does not exist past its construction: it is
\* never running and has recorded no trade.
C18_NonPositiveConfigNeverRuns ==
    (stop_loss_percent <= 0 \/ take_profit_percent <= 0 \/ max_hold_minutes <= 0)
        => (~is_running /\ pc = "idle" /\ trades = <<>>)

\* C19 (checked on engines with a positive configuration): once an operation that appended a SELL to the ledger has completed
\* without a failed write (an iteration of run(), or stop() with its Manual
\* Stop row), the trades file holds the whole ledger.
C19_FileHoldsLedgerAfterSell ==
    [][(/\ PositiveConfig
        /\ (\E r \in FetchResults : IterationOn(r, TRUE)) \/ stop
        /\ Len(trades') = Len(trades) + 1
        /\ Last(trades').type = "SELL")
       => csv' = trades']_vars


\* C17 (checked on bot/trade.py engines with a positive configuration): a
\* stop() that arrives while an iteration is in flight does not cut into
\* execute_trade: whatever the interleaving, every SELL of the ledger follows
\* its own BUY (rows alternate from a BUY on), and no position is open once
\* run() has ended.
C17_StopNeverCutsTrade ==
    PositiveConfig =>
        /\ \A i \in 1..Len(trades) :
              trades[i].type = IF i % 2 = 1 THEN "BUY" ELSE "SELL"
        /\ (pc = "idle" /\ ~is_running) => position = "NONE"

\* C20: two engines running for different symbols share no mutable state: no
\* action of this engine changes the trades file of the second one, and the
\* second engine's write does not change this engine's trades file.
C20_EnginesShareNothing ==
    /\ [][Next => peer_csv' = peer_csv]_vars
    /\ [][PeerWrites => csv' = csv]_vars


\* C21 (checked on engines with a positive configuration): every SELL of the
\* ledger, the one of stop() included, has a timestamp not earlier than that
\* of the BUY it closes (the row before it), whatever bars the provider
\* returns, a latest bar older than the entry bar included.
C21_SellNotBeforeItsBuy ==
    PositiveConfig =>
        \A i \in 2..Len(trades) :
            trades[i].type = "SELL" => trades[i].timestamp >= trades[i - 1].timestamp


\* the index of the ledger's last BUY row (0: there is none)
LastBuy == LET buys == {i \in 1..Len(trades) : trades[i].type = "BUY"}
           IN  IF buys = {} THEN 0 ELSE CHOOSE i \in buys : \A j \in buys : j <= i

\* C22: entry_price and entry_time are written by the BUY that opens a
\* position and by nothing else: at all times they are the price and the
\* timestamp of the ledger's last BUY (the constructor's values before the
\* first one), so no bar, HOLD decision, fetch or SELL in between changes them.
C22_EntryIsLastBuy ==
    IF LastBuy = 0
    THEN entry_price = 0 /\ entry_time = None
    ELSE entry_price = trades[LastBuy].price /\ entry_time = trades[LastBuy].timestamp

\* a position is open at another price than the latest close: a later bar
\* has been processed and held through
C22_Witness ==
    /\ position = "LONG"
    /\ Len(trades) = 1
    /\ data # <<>>
    /\ data[1].close # entry_price
    /\ data[1].timestamp > entry_time
    /\ pc = "loop"

\* C23: every SELL row, of execute_trade or of stop(), has as profit its own
\* price minus the price of the BUY row just before it; BUY rows have the
\* fields type, price and timestamp only (no profit, no reason).
C23_ProfitIsPriceMinusBuyPrice ==
    \A i \in 1..Len(trades) :
        IF trades[i].type = "SELL"
        THEN /\ i > 1
             /\ trades[i - 1].type = "BUY"
             /\ trades[i].profit = trades[i].price - trades[i - 1].price
        ELSE DOMAIN trades[i] = {"type", "price", "timestamp"}

\* stop() has closed a position at another price than its BUY's
C23_Witness ==
    /\ Len(trades) = 2
    /\ trades[2].reason = "Manual Stop"
    /\ trades[2].profit # 0
    /\ trades[2].price # trades[1].price


\* the calls of execute_trade that match neither of its branches
NoOpCall(signal) ==
    \/ signal = "HOLD"
    \/ signal = "BUY" /\ position = "LONG"
    \/ signal = "SELL" /\ position = "NONE"

\* C24: execute_trade called with HOLD, with BUY while a position is held, or
\* with SELL while none is held changes nothing (position, entry_price,
\* entry_time, ledger, both signal lists) and raises no error.
C24_UnmatchedCallIsNoOp ==
    [][\A signal \in Signals, ioOk \in BOOLEAN :
          (NoOpCall(signal) /\ ExecuteTradeOn(signal, ioOk))
              => /\ UNCHANGED <<posVars, ledgerVars, csv>>
                 /\ ~ExecuteRaises(signal, ioOk)]_vars

\* an engine outside its loop holds a position and has a candle: a caller can
\* invoke execute_trade with BUY or HOLD on it
C24_Witness ==
    /\ position = "LONG"
    /\ data # <<>>
    /\ Len(trades) = 1
    /\ ~is_running
    /\ pc = "idle"

\* the (timestamp, price) pairs of the ledger's rows of one type, in order
SignalsOf(type) ==
    LET rows == SelectSeq(trades, LAMBDA t : t.type = type)
    IN  [i \in 1..Len(rows) |-> <<rows[i].timestamp, rows[i].price>>]

\* C25 (checked on engines with a positive configuration): the signal lists
\* mirror the ledger: the i-th entry of buy_signals (sell_signals) is the
\* (timestamp, price) pair of the i-th BUY (SELL) row, the SELL of stop()
\* included.
C25_SignalsMirrorLedger ==
    PositiveConfig =>
        /\ buy_signals = SignalsOf("BUY")
        /\ sell_signals = SignalsOf("SELL")


\* C26 (checked on engines with a positive configuration): no position is
\* still LONG once a bar with a timestamp at or beyond entry_time plus the
\* configured max_hold_minutes has been processed (the bar of self.data has
\* been processed in every state).
C26_NoPositionPastMaxHold ==
    (PositiveConfig /\ position = "LONG" /\ data # <<>>)
        => data[1].timestamp < entry_time + max_hold_minutes


\* C27: one iteration of run() appends at most one row to the ledger, and
\* the position after it is the one that row gives: closed after a SELL (the
\* iteration does not buy again), open after a BUY (it does not sell again).
C27_OneTradePerIteration ==
    [][RunIteration =>
        \/ trades' = trades /\ position' = position
        \/ /\ trades' = Append(trades, Last(trades'))
           /\ position' = IF Last(trades').type = "BUY" THEN "LONG" ELSE "NONE"
           /\ position' # position]_vars

\* an iteration has just sold on the bar of self.data and left the engine flat
C27_Witness ==
    /\ pc = "loop"
    /\ is_running
    /\ position = "NONE"
    /\ Len(trades) = 2
    /\ trades[2].reason # "Manual Stop"
    /\ data # <<>>
    /\ data[1].timestamp = trades[2].timestamp
    /\ data[1].close = trades[2].price

\* C28 (engines with positive percentages; every price is positive): every
\* SELL recorded as Stop Loss has a profit below zero and every SELL recorded
\* as Take Profit a profit above zero.
C28_ReasonGivesProfitSign ==
    PositiveConfig =>
        \A i \in 1..Len(trades) :
            trades[i].type = "SELL" =>
                /\ trades[i].reason = "Stop Loss" => trades[i].profit < 0
                /\ trades[i].reason = "Take Profit" => trades[i].profit > 0

====
